---- MODULE Spec2Model ----
(***************************************************************************)
(* Model of the voice stock-market assistant: the /transcribe/ pipeline    *)
(* (main.py), the command-line entry point (ma.py), the two agent tools    *)
(* (agent.py) and the retrieval functions behind them (data.py).           *)
(*                                                                         *)
(* External collaborators (speech recognition, the compiled supervisor     *)
(* graph, gTTS, DDGS, requests, newspaper, yfinance) are not part of the   *)
(* repository: each of their calls is an input chosen with \E among the    *)
(* outcomes the call can have (a returned value or a raised exception).    *)
(***************************************************************************)
EXTENDS Integers, Sequences, FiniteSets, TLC

(* ------------------------------ bounds --------------------------------- *)
NumReqs == 2        \* concurrent /transcribe/ requests
MaxAudioLen == 2    \* bytes in one uploaded audio file
MaxTrace == 2       \* turns in the sequence the supervisor returns
MaxItems == 1       \* items DDGS returns for one text or news search
MaxDay == 3         \* calendar days a price lookup can name

Reqs == 1..NumReqs
Texts == {"q1", "q2"}                 \* recognised utterances / queries
Contents == {"", "a"}                 \* text content of a returned turn
ExcMsgs == {"", "boom"}               \* str(e) of a raised exception
MsgTypes == {"human", "ai"}           \* HumanMessage, AIMessage

None == [tag |-> "None"]

VARIABLES
    pc,            \* pc[r]: position of request r's transcribe_audio coroutine
    tempFile,      \* content of the file "temp.wav"
    convertedFile, \* content of the file "converted.wav"
    call,          \* locals and return value of the transcribe_audio run that
                   \* has returned and whose response is being sent (else NoCall)
    sup,           \* the invocation of a compiled supervisor graph made by that
                   \* run, or by ma.py while it runs (else NoSup)
    tool           \* the tool or retrieval call whose outcome the caller is
                   \* taking (else NoTool)

vars == <<pc, tempFile, convertedFile, call, sup, tool>>
pipeVars == <<pc, tempFile, convertedFile, call, sup>>

(* ------------------------- main.py: pipeline --------------------------- *)

\* An upload of n bytes by request r; every byte carries the uploader's id.
Upload(r, n) == [i \in 1..n |-> r]

\* open("temp.wav", "wb"): the file is truncated when it is opened.
OpenTruncate(content) == << >>

\* f.write(data) on a handle opened earlier: data lands at offset 0 of the
\* file as it is now; bytes beyond len(data) written since the open stay.
WriteAtStart(content, data) ==
    data \o SubSeq(content, Len(data) + 1, Len(content))

\* AudioSegment.from_file("temp.wav").export("converted.wav", format="wav"):
\* the whole content of temp.wav, re-encoded as wav.
Convert(content) == [format |-> "wav", samples |-> content]

\* main.process_user_query: the state handed to app_agent.invoke.
process_user_query(query) ==
    [field |-> "Message",
     turns |-> << [role |-> "user", content |-> [type |-> "set", text |-> query]] >>]

\* ma.process_user_query: the state handed to app.invoke.
ma_process_user_query(query) ==
    [field |-> "messages",
     turns |-> << [role |-> "user", content |-> [type |-> "str", text |-> query]] >>]

\* for message in reversed(response['messages']): first AIMessage found.
RECURSIVE ScanReversed(_, _)
ScanReversed(messages, i) ==
    IF i = 0 THEN ""
    ELSE IF messages[i].type = "ai" THEN messages[i].content
    ELSE ScanReversed(messages, i - 1)

RECURSIVE ScanForward(_, _)
ScanForward(messages, i) ==
    IF i > Len(messages) THEN ""
    ELSE IF messages[i].type = "ai" THEN messages[i].content
    ELSE ScanForward(messages, i + 1)

FirstAIContent(messages) == ScanForward(messages, 1)

final_response(messages) == ScanReversed(messages, Len(messages))

\* f"response_{uuid.uuid4().hex}.mp3" for request r: uuid4 gives every
\* call a value of its own.
audio_filename(r) == <<"response_", <<"uuid4", r>>, ".mp3">>

SuccessResponse(text, response, name) ==
    [transcription |-> text, response |-> response,
     audio_url |-> <<"/static/">> \o name]

ErrorWithTranscription(message) == [error |-> message, transcription |-> ""]

ErrorResponse(message) == [error |-> message]

Traces == UNION {[1..n -> [type : MsgTypes, content : Contents]] : n \in 0..MaxTrace}

NoCall ==
    [req |-> 0, failed |-> "none", uploaded |-> << >>, src |-> << >>, text |-> "",
     supCalled |-> FALSE, messages |-> << >>, hasMessages |-> FALSE,
     ttsStarted |-> FALSE, ttsText |-> "", saved |-> << >>, resp |-> None]

NoSup == [entry |-> "none", text |-> "", payload |-> None]
NoTool ==
    [name |-> "none", args |-> << >>, raised |-> FALSE, result |-> None,
     ddgFailed |-> FALSE, newsFailed |-> FALSE, cause |-> "none"]

Init ==
    /\ pc = [r \in Reqs |-> "idle"]
    /\ tempFile = << >>
    /\ convertedFile = Convert(<< >>)
    /\ call = NoCall
    /\ sup = NoSup
    /\ tool = NoTool

\* Lines 58-64 up to the await: the request arrives, temp.wav is opened for
\* writing and the coroutine suspends in file.read().  The event loop runs
\* one coroutine step at a time; a step of the server is taken once the
\* response of the run before it has been handed over (call = NoCall), which
\* loses no interleaving of the steps that touch the files.
transcribe_audio_open(r) ==
    /\ pc[r] = "idle"
    /\ call = NoCall
    /\ tempFile' = OpenTruncate(tempFile)
    /\ pc' = [pc EXCEPT ![r] = "reading"]
    /\ UNCHANGED <<convertedFile, call, sup, tool>>

\* The uploads request r can make.
Uploads(r) == {Upload(r, n) : n \in 1..MaxAudioLen}

\* The part every resumed run shares: file.read() gives the upload, which is
\* written and the file closed.
Written(data) == WriteAtStart(tempFile, data)

\* Lines 64-68, 100-101: AudioSegment.from_file or export raises.
resume_decode_error(r) ==
    /\ pc[r] = "reading"
    /\ call = NoCall
    /\ sup = NoSup
    /\ \E data \in Uploads(r) :
         /\ tempFile' = Written(data)
         /\ \E m \in ExcMsgs :
              call' = [NoCall EXCEPT !.req = r, !.uploaded = data,
                                     !.failed = "decode", !.resp = ErrorResponse(m)]
    /\ pc' = [pc EXCEPT ![r] = "done"]
    /\ UNCHANGED <<convertedFile, sup, tool>>

\* Lines 64-73, 96-99: recognize_google raises UnknownValueError or RequestError.
resume_transcription_error(r) ==
    /\ pc[r] = "reading"
    /\ call = NoCall
    /\ sup = NoSup
    /\ \E data \in Uploads(r) :
         /\ tempFile' = Written(data)
         /\ convertedFile' = Convert(Written(data))
         /\ \E k \in {"unintelligible", "request"}, m \in ExcMsgs :
              call' = [NoCall EXCEPT
                         !.req = r, !.uploaded = data, !.failed = k,
                         !.src = Convert(Written(data)).samples,
                         !.resp = IF k = "unintelligible"
                                  THEN ErrorResponse(<<"Google Speech Recognition could not understand audio">>)
                                  ELSE ErrorResponse(<<"Could not request results from Google; ", m>>)]
    /\ pc' = [pc EXCEPT ![r] = "done"]
    /\ UNCHANGED <<sup, tool>>

\* Lines 64-76, 100-101: app_agent.invoke raises.
resume_supervisor_error(r) ==
    /\ pc[r] = "reading"
    /\ call = NoCall
    /\ sup = NoSup
    /\ \E data \in Uploads(r) :
         /\ tempFile' = Written(data)
         /\ convertedFile' = Convert(Written(data))
         /\ \E text \in Texts, m \in ExcMsgs :
              /\ sup' = [entry |-> "main", text |-> text,
                         payload |-> process_user_query(text)]
              /\ call' = [NoCall EXCEPT
                            !.req = r, !.uploaded = data, !.failed = "supervisor",
                            !.src = Convert(Written(data)).samples,
                            !.text = text, !.supCalled = TRUE,
                            !.resp = ErrorResponse(m)]
    /\ pc' = [pc EXCEPT ![r] = "done"]
    /\ UNCHANGED <<tool>>

\* Lines 64-79, 100-101: the returned state has no 'messages' key (KeyError).
resume_no_messages(r) ==
    /\ pc[r] = "reading"
    /\ call = NoCall
    /\ sup = NoSup
    /\ \E data \in Uploads(r) :
         /\ tempFile' = Written(data)
         /\ convertedFile' = Convert(Written(data))
         /\ \E text \in Texts :
              /\ sup' = [entry |-> "main", text |-> text,
                         payload |-> process_user_query(text)]
              /\ call' = [NoCall EXCEPT
                            !.req = r, !.uploaded = data, !.failed = "supervisor",
                            !.src = Convert(Written(data)).samples,
                            !.text = text, !.supCalled = TRUE,
                            !.resp = ErrorResponse("'messages'")]
    /\ pc' = [pc EXCEPT ![r] = "done"]
    /\ UNCHANGED <<tool>>

\* Lines 64-88, 100-101: gTTS(...) or tts.save raises.
resume_synthesis_error(r) ==
    /\ pc[r] = "reading"
    /\ call = NoCall
    /\ sup = NoSup
    /\ \E data \in Uploads(r) :
         /\ tempFile' = Written(data)
         /\ convertedFile' = Convert(Written(data))
         /\ \E text \in Texts, messages \in Traces, m \in ExcMsgs :
              /\ sup' = [entry |-> "main", text |-> text,
                         payload |-> process_user_query(text)]
              /\ call' = [NoCall EXCEPT
                            !.req = r, !.uploaded = data, !.failed = "synthesis",
                            !.src = Convert(Written(data)).samples,
                            !.text = text, !.supCalled = TRUE,
                            !.messages = messages, !.hasMessages = TRUE,
                            !.ttsStarted = TRUE,
                            !.ttsText = final_response(messages),
                            !.resp = ErrorResponse(m)]
    /\ pc' = [pc EXCEPT ![r] = "done"]
    /\ UNCHANGED <<tool>>

\* Lines 64-94: every step succeeds.
resume_success(r) ==
    /\ pc[r] = "reading"
    /\ call = NoCall
    /\ sup = NoSup
    /\ \E data \in Uploads(r) :
         /\ tempFile' = Written(data)
         /\ convertedFile' = Convert(Written(data))
         /\ \E text \in Texts, messages \in Traces :
              /\ sup' = [entry |-> "main", text |-> text,
                         payload |-> process_user_query(text)]
              /\ call' = [NoCall EXCEPT
                            !.req = r, !.uploaded = data,
                            !.src = Convert(Written(data)).samples,
                            !.text = text, !.supCalled = TRUE,
                            !.messages = messages, !.hasMessages = TRUE,
                            !.ttsStarted = TRUE,
                            !.ttsText = final_response(messages),
                            !.saved = <<"static/">> \o audio_filename(r),
                            !.resp = SuccessResponse(text, final_response(messages),
                                                     audio_filename(r))]
    /\ pc' = [pc EXCEPT ![r] = "done"]
    /\ UNCHANGED <<tool>>

\* The event loop sends the JSONResponse of the run that just returned; the
\* coroutine and its locals are gone and the client may submit again.
deliver(r) ==
    /\ pc[r] = "done"
    /\ call.req = r
    /\ pc' = [pc EXCEPT ![r] = "idle"]
    /\ call' = NoCall
    /\ sup' = NoSup
    /\ UNCHANGED <<tempFile, convertedFile, tool>>

\* ma.py lines 34-53 and 56-61: the command-line entry point, a process
\* of its own, invokes its supervisor graph.
ma_main ==
    /\ sup = NoSup
    /\ call = NoCall
    /\ \E query \in Texts :
         sup' = [entry |-> "ma", text |-> query,
                 payload |-> ma_process_user_query(query)]
    /\ UNCHANGED <<pc, tempFile, convertedFile, call, tool>>

\* ma.py lines 63-69: the result is printed and the process ends.
ma_exit ==
    /\ sup.entry = "ma"
    /\ sup' = NoSup
    /\ UNCHANGED <<pc, tempFile, convertedFile, call, tool>>

Next ==
    \/ \E r \in Reqs : transcribe_audio_open(r)
    \/ \E r \in Reqs : resume_decode_error(r)
    \/ \E r \in Reqs : resume_transcription_error(r)
    \/ \E r \in Reqs : resume_supervisor_error(r)
    \/ \E r \in Reqs : resume_no_messages(r)
    \/ \E r \in Reqs : resume_synthesis_error(r)
    \/ \E r \in Reqs : resume_success(r)
    \/ \E r \in Reqs : deliver(r)
    \/ ma_main
    \/ ma_exit

Spec == Init /\ [][Next]_vars

(* ----------------------- data.py: retrieval ---------------------------- *)

NewsHosts == {"n1.com", "n2.com"}

\* The <a href> values of the fetched Google News page: wrapped ones hold
\* '/url?q=<target>&...', the others are plain links.
Hrefs ==
    {[wrapped |-> TRUE, host |-> "n1.com"], [wrapped |-> TRUE, host |-> "n2.com"],
     [wrapped |-> TRUE, host |-> "www.google.com"], [wrapped |-> TRUE, host |-> "msn.com"],
     [wrapped |-> FALSE, host |-> "n2.com"]}

\* Lines 101-108: the hosts of the page that one of the six prefixes matches.
remove_url == {"www.google.com"}

max_results == 5

summary_limit == 250

\* Lines 113-117: the test a link passes to be kept.
KeepLink(h) == h.wrapped /\ h.host # "msn.com" /\ h.host \notin remove_url

Min(a, b) == IF a < b THEN a ELSE b

\* Lines 110-122: the kept links, at most max_results of them, as a list in
\* the arbitrary order of a set.
Orders(S) == {q \in [1..Cardinality(S) -> S] : \A i, j \in 1..Cardinality(S) : q[i] = q[j] => i = j}

NewsLinkLists(page) ==
    LET kept == {h.host : h \in {x \in page : KeepLink(x)}}
        n == Min(Cardinality(kept), max_results)
    IN UNION {Orders(S) : S \in {T \in SUBSET kept : Cardinality(T) = n}}

\* Lines 97-125: any exception of the request or the parse gives [].
get_news_urls(fetchRaises, page) ==
    IF fetchRaises THEN {<< >>} ELSE NewsLinkLists(page)

\* Lines 66-79: None when the download or parse raises.
get_news_summary(url, article) ==
    IF article.raises THEN None
    ELSE [title |-> article.title,
          summary |-> IF article.meta_description # << >> THEN article.meta_description
                      ELSE SubSeq(article.text, 1, Min(Len(article.text), summary_limit)),
          source |-> url, url |-> url]

Articles ==
    {[raises |-> TRUE, title |-> "", meta_description |-> << >>, text |-> << >>],
     [raises |-> FALSE, title |-> "t", meta_description |-> << >>, text |-> <<"x", "y">>],
     [raises |-> FALSE, title |-> "t", meta_description |-> <<"m">>, text |-> <<"x", "y">>]}

\* Lines 145-149: the summaries of the urls in order, failed ones skipped.
RECURSIVE news_summaries(_, _)
news_summaries(urls, articles) ==
    IF urls = << >> THEN << >>
    ELSE LET s == get_news_summary(Head(urls), articles[Head(urls)])
         IN (IF s = None THEN << >> ELSE <<s>>) \o news_summaries(Tail(urls), articles)

\* What DDGS gives for one hit: the fields of a result dict.
DdgItems == {[title |-> "t", body |-> "b", link |-> "l"],
             [title |-> "t", body |-> "b", href |-> "l"]}

DdgLists == UNION {[1..n -> DdgItems] : n \in 0..MaxItems}

DdgOutcomes ==
    {[raises |-> TRUE, message |-> m, items |-> << >>] : m \in ExcMsgs}
    \cup {[raises |-> FALSE, message |-> "", items |-> l] : l \in DdgLists}

\* Lines 153-160: result["title"], result["body"], result["link"].
HasKeys(items) == \A i \in 1..Len(items) : {"title", "body", "link"} \subseteq DOMAIN items[i]

FormatText(items) ==
    [i \in 1..Len(items) |->
        [title |-> items[i].title, snippet |-> items[i].body, link |-> items[i].link]]

\* Lines 161-169: as above, with result.get("date", "").
FormatNews(items) ==
    [i \in 1..Len(items) |->
        [title |-> items[i].title, snippet |-> items[i].body, link |-> items[i].link,
         date |-> IF "date" \in DOMAIN items[i] THEN items[i].date ELSE ""]]

SearchErrorKeepingResults(message) ==
    [status |-> "error", message |-> message,
     results |-> [text_results |-> << >>]]

\* Lines 178-183.
SearchError(message) ==
    [status |-> "error", message |-> message, results |-> None]

\* Lines 152-176.
SearchSuccess(text, news, summaries) ==
    [status |-> "success",
     results |-> [text_results |-> FormatText(text),
                  news_results |-> FormatNews(news),
                  news_summaries |-> summaries]]

\* Lines 137-183: the whole function, given what each external call does.
search_duckduckgo(text, news, urls, articles) ==
    IF text.raises THEN SearchError(text.message)
    ELSE IF news.raises THEN SearchError(news.message)
    ELSE IF ~HasKeys(text.items) \/ ~HasKeys(news.items) THEN SearchError("'link'")
    ELSE SearchSuccess(text.items, news.items, news_summaries(urls, articles))

Days == 1..MaxDay
Tickers == {"AAPL", "ZZZZINVALID"}

\* stock.history(start, end): one row per trading day d with start <= d < end
\* on which the ticker traded, in date order.
RECURSIVE HistoryRows(_, _, _)
HistoryRows(traded, d, end) ==
    IF d >= end THEN << >>
    ELSE (IF d \in traded THEN << [Date |-> d, Close |-> 100 + d] >> ELSE << >>)
         \o HistoryRows(traded, d + 1, end)

\* history.to_dict('records'): one dict per row, of its columns; the Date
\* index is not a column.
to_dict_records(rows) == [i \in 1..Len(rows) |-> [Close |-> rows[i].Close]]

NoDataMessage == "No data found for the given period."

\* Lines 201 and 207.
StockError(message) == [status |-> "error", message |-> message, data |-> None]

StockSuccessAlways(rows) ==
    [status |-> "success", data |-> [tag |-> "list", items |-> to_dict_records(rows)]]

\* Lines 200-205.
StockResult(rows) ==
    IF rows = << >> THEN StockError(NoDataMessage)
    ELSE [status |-> "success", data |-> [tag |-> "list", items |-> to_dict_records(rows)]]

(* ------------------------- agent.py: tools ----------------------------- *)

\* langchain Tool is single-input: func is called with one positional argument.
ToolArgs == 1
search_tool_arity == 1
fetch_stock_history_arity == 3

\* func(tool_input): binding the argument to func's parameters raises
\* TypeError, before func's body runs, unless func takes exactly that many.
BindRaises(arity) == ToolArgs # arity

\* agent.py lines 12-34: the web search agent calls its tool.
search_tool_call ==
    /\ tool = NoTool
    /\ \E query \in Texts, text \in DdgOutcomes, news \in DdgOutcomes,
          fetchRaises \in BOOLEAN, page \in SUBSET Hrefs,
          articles \in [NewsHosts -> Articles] :
         \E urls \in get_news_urls(fetchRaises, page) :
           tool' = IF BindRaises(search_tool_arity)
                   THEN [NoTool EXCEPT !.name = "search_duckduckgo",
                                       !.args = <<query>>,
                                       !.raised = TRUE, !.cause = "TypeError"]
                   ELSE [NoTool EXCEPT
                           !.name = "search_duckduckgo", !.args = <<query>>,
                           !.result = search_duckduckgo(text, news, urls, articles),
                           !.ddgFailed = text.raises \/ news.raises,
                           !.newsFailed = fetchRaises,
                           !.cause = IF HasKeys(text.items) /\ HasKeys(news.items)
                                     THEN "none" ELSE "KeyError"]
    /\ UNCHANGED pipeVars

\* data.py lines 197-207: the body of fetch_stock_history, given what
\* the two yfinance calls do.
fetch_stock_history_body(args, rows, fetchRaises, m) ==
    [NoTool EXCEPT
       !.name = "fetch_stock_history", !.args = args,
       !.result = IF fetchRaises THEN StockError(m) ELSE StockResult(rows),
       !.cause = IF fetchRaises THEN "exception"
                 ELSE IF rows = << >> THEN "empty" ELSE "none"]

\* What Yahoo holds: nothing for an unknown ticker.
YahooRows(ticker, traded, start, end) ==
    IF ticker = "AAPL" THEN HistoryRows(traded, start, end) ELSE << >>

\* agent.py lines 37-46: the stock history agent calls its tool with the
\* one argument the oracle wrote.
stock_tool_call ==
    /\ tool = NoTool
    /\ \E ticker \in Tickers, start \in Days, end \in Days, traded \in SUBSET Days,
          m \in ExcMsgs, fetchRaises \in BOOLEAN :
         LET payload == << [ticker |-> ticker, start_date |-> start, end_date |-> end] >>
         IN tool' = IF BindRaises(fetch_stock_history_arity)
                    THEN [NoTool EXCEPT !.name = "fetch_stock_history_tool",
                                        !.args = payload,
                                        !.raised = TRUE, !.cause = "TypeError"]
                    ELSE fetch_stock_history_body(
                             payload, YahooRows(ticker, traded, start, end),
                             fetchRaises, m)
    /\ UNCHANGED pipeVars

\* data.py lines 185-207: fetch_stock_history called with its three arguments.
fetch_stock_history ==
    /\ tool = NoTool
    /\ \E ticker \in Tickers, start \in Days, end \in Days, traded \in SUBSET Days,
          m \in ExcMsgs, fetchRaises \in BOOLEAN :
         tool' = fetch_stock_history_body(
                     <<ticker, start, end>>, YahooRows(ticker, traded, start, end),
                     fetchRaises, m)
    /\ UNCHANGED pipeVars

\* The caller has taken the value (or the exception) of the call.
tool_return ==
    /\ tool # NoTool
    /\ tool' = NoTool
    /\ UNCHANGED pipeVars

NextTools ==
    \/ search_tool_call
    \/ stock_tool_call
    \/ fetch_stock_history
    \/ tool_return

SpecTools == Init /\ [][NextTools]_vars

(* ------------------------------ claims --------------------------------- *)

Returned == call.req # 0
SuccessFields == {"transcription", "response", "audio_url"}
ErrorFields == {"error"}

\* C1: every completed transcribe_audio call returns either the success
\* object (transcription, response and audio_url, no error) or an object
\* holding only error; when transcription, the supervisor call or synthesis
\* fails it is the error-only object.
C1_ResponseShape ==
    Returned =>
        /\ DOMAIN call.resp \in {SuccessFields, ErrorFields}
        /\ (call.failed # "none" => DOMAIN call.resp = ErrorFields)
        /\ (call.failed = "none" => DOMAIN call.resp = SuccessFields)

C1_Witness ==
    /\ Returned
    /\ call.failed = "synthesis"
    /\ call.ttsStarted
    /\ DOMAIN call.resp = ErrorFields

\* C2: whenever a supervisor graph is invoked for the text T, the state it
\* is given holds, in the field "messages" that the graph reads, exactly one
\* turn, tagged user, whose content is the string T; on every entry point.
C2_SupervisorPayload ==
    sup.entry # "none" =>
        /\ sup.payload.field = "messages"
        /\ Len(sup.payload.turns) = 1
        /\ sup.payload.turns[1].role = "user"
        /\ sup.payload.turns[1].content = [type |-> "str", text |-> sup.text]

\* C4: the audio a request's transcription is computed from is exactly the
\* audio that request uploaded, whatever other requests do meanwhile.
C4_OwnAudioOnly ==
    (Returned /\ call.supCalled) => call.src = call.uploaded

IsLastAI(messages, i) ==
    /\ messages[i].type = "ai"
    /\ \A j \in (i + 1)..Len(messages) : messages[j].type # "ai"

\* C9: on every successful request the response field is the content of the
\* last AIMessage of the returned sequence (later turns of other types are
\* skipped), and speech synthesis was given that same text.
C9_ResponseIsLastAssistant ==
    (Returned /\ call.failed = "none") =>
        /\ call.ttsText = call.resp.response
        /\ \A i \in 1..Len(call.messages) :
             IsLastAI(call.messages, i) => call.resp.response = call.messages[i].content

C9_Witness ==
    /\ Returned
    /\ call.failed = "none"
    /\ \E i \in 1..Len(call.messages) :
         /\ IsLastAI(call.messages, i)
         /\ i < Len(call.messages)
         /\ call.messages[i].content # ""
         /\ call.resp.response = call.messages[i].content

\* C10: whenever speech synthesis is started, the text it is given is not
\* empty.
C10_SynthesisNonEmpty ==
    call.ttsStarted => call.ttsText # ""

Called(name) == tool.name = name
Gave(status) == ~tool.raised /\ tool.result.status = status

\* C5: in search_duckduckgo, when exactly one of the two sub-fetches fails
\* (the DDGS text/news fetch, or the news-url fetch) the call still returns
\* status success with the results of the other.
C5_PartialResults ==
    (Called("search_duckduckgo") /\ ~tool.raised /\ tool.cause = "none"
        /\ tool.ddgFailed # tool.newsFailed)
    => tool.result.status = "success"

\* C6: no call of either agent's tool raises: a failure of the fetch or of
\* the call itself comes back as a result with status error.
C6_NoExceptionEscapes ==
    (Called("search_duckduckgo") \/ Called("fetch_stock_history_tool")) => ~tool.raised

\* C7, as stated: a status error of fetch_stock_history carries a non-empty
\* message and a null data; an empty result set gives exactly the no-data
\* message; status success carries a non-empty sequence of records.
C7_Original ==
    Called("fetch_stock_history") =>
        /\ Gave("error") =>
             /\ tool.result.message # ""
             /\ tool.result.data = None
        /\ (tool.cause = "empty") =>
             (Gave("error") /\ tool.result.message = NoDataMessage)
        /\ Gave("success") =>
             (tool.result.data # None /\ Len(tool.result.data.items) > 0)

\* C7, amended: a status error carries a message and a null data; the
\* message is exactly the no-data message when the result set is empty and
\* is non-empty unless the error is a raised exception whose text is empty;
\* status success carries a non-empty sequence of records.
C7_StockResult ==
    Called("fetch_stock_history") =>
        /\ Gave("error") =>
             /\ DOMAIN tool.result = {"status", "message", "data"}
             /\ tool.result.data = None
             /\ (tool.result.message = "" => tool.cause = "exception")
        /\ (tool.cause = "empty") =>
             (Gave("error") /\ tool.result.message = NoDataMessage)
        /\ Gave("success") =>
             /\ tool.cause = "none"
             /\ "message" \notin DOMAIN tool.result
             /\ tool.result.data # None
             /\ Len(tool.result.data.items) > 0

C7_Witness ==
    /\ Called("fetch_stock_history")
    /\ tool.args[2] > tool.args[3]
    /\ tool.cause = "empty"
    /\ Gave("error")
    /\ tool.result.message = NoDataMessage

\* C8: search_duckduckgo returns either status success with text_results,
\* news_results and news_summaries all present, or status error with a
\* message and no results; never an error with results, never a success
\* lacking one of the three.
C8_SearchResultShape ==
    Called("search_duckduckgo") =>
        /\ ~tool.raised
        /\ \/ /\ tool.result.status = "success"
              /\ DOMAIN tool.result = {"status", "results"}
              /\ DOMAIN tool.result.results =
                     {"text_results", "news_results", "news_summaries"}
           \/ /\ tool.result.status = "error"
              /\ DOMAIN tool.result = {"status", "message", "results"}
              /\ tool.result.results = None

C8_Witness ==
    /\ Called("search_duckduckgo")
    /\ Gave("success")
    /\ tool.result.results.text_results # << >>
    /\ tool.result.results.news_summaries = << >>
    /\ tool.newsFailed

====
